---- MODULE Spec2Model ----
(***************************************************************************)
(* Vyappar: inventory and invoices kept in the browser's localStorage.     *)
(* The model has the store module (lib/store), the Inventory page and the  *)
(* Invoices page.  Two browser tabs of the same origin share localStorage; *)
(* each tab runs its event handlers to completion, one at a time.          *)
(*                                                                         *)
(* JavaScript numbers are records [kind, n]: a finite number, NaN, or the  *)
(* null that JSON.stringify writes for NaN.  Texts typed into inputs are   *)
(* sequences of one-character strings.                                     *)
(***************************************************************************)
EXTENDS Integers, Sequences, FiniteSets, TLC

\* ------------------------------------------------------------------ bounds
MaxUuids == 2        \* crypto.randomUUID() calls in one behaviour
MaxLines == 2        \* rows of the invoice form
MaxEdits == 1        \* edits saved in one behaviour
MaxRecords == 3      \* items and invoices created before the analytics are read

Tabs == {"A", "B"}

\* ------------------------------------------------------- JavaScript values
Num(n) == [kind |-> "num", n |-> n]
NaN == [kind |-> "NaN", n |-> 0]
Null == [kind |-> "null", n |-> 0]

IsNaN(v) == v.kind = "NaN"
\* ToNumber: null coerces to 0, a number is itself (NaN is handled by callers)
ToNumber(v) == v.n

Sub(a, b) == IF IsNaN(a) \/ IsNaN(b) THEN NaN ELSE Num(ToNumber(a) - ToNumber(b))
Mul(a, b) == IF IsNaN(a) \/ IsNaN(b) THEN NaN ELSE Num(ToNumber(a) * ToNumber(b))
Add(a, b) == IF IsNaN(a) \/ IsNaN(b) THEN NaN ELSE Num(ToNumber(a) + ToNumber(b))
MathMax(a, b) ==
    IF IsNaN(a) \/ IsNaN(b) THEN NaN
    ELSE IF ToNumber(a) >= ToNumber(b) THEN Num(ToNumber(a)) ELSE Num(ToNumber(b))
\* comparisons with NaN are false
Lt(a, b) == ~IsNaN(a) /\ ~IsNaN(b) /\ ToNumber(a) < ToNumber(b)
Gt(a, b) == Lt(b, a)
Le(a, b) == ~IsNaN(a) /\ ~IsNaN(b) /\ ToNumber(a) <= ToNumber(b)

\* JSON.parse(JSON.stringify(v)) of a number: NaN is written as null
JsonNumber(v) == IF IsNaN(v) THEN Null ELSE v

\* ------------------------------------------------------------------ texts
Digits == <<"0", "1", "2", "3", "4", "5", "6", "7", "8", "9">>
IsDigit(c) == \E d \in 1..10 : Digits[d] = c
DigitVal(c) == (CHOOSE d \in 1..10 : Digits[d] = c) - 1

RECURSIVE TrimStart(_)
TrimStart(s) == IF s # <<>> /\ Head(s) = " " THEN TrimStart(Tail(s)) ELSE s
RECURSIVE TrimEnd(_)
TrimEnd(s) ==
    IF s # <<>> /\ s[Len(s)] = " " THEN TrimEnd(SubSeq(s, 1, Len(s) - 1)) ELSE s
\* String.prototype.trim
Trim(s) == TrimEnd(TrimStart(s))

\* the longest prefix of s made of digits
RECURSIVE DigitPrefix(_)
DigitPrefix(s) ==
    IF s # <<>> /\ IsDigit(Head(s)) THEN <<Head(s)>> \o DigitPrefix(Tail(s)) ELSE <<>>
RECURSIVE DigitsValue(_)
DigitsValue(s) ==
    IF s = <<>> THEN 0 ELSE 10 * DigitsValue(SubSeq(s, 1, Len(s) - 1)) + DigitVal(s[Len(s)])

\* parseInt(text): leading blanks, a sign, then digits up to the first other
\* character; NaN when there is no digit
parseInt(text) ==
    LET s == TrimStart(text)
        neg == s # <<>> /\ Head(s) = "-"
        body == IF s # <<>> /\ Head(s) \in {"-", "+"} THEN Tail(s) ELSE s
        ds == DigitPrefix(body)
    IN  IF ds = <<>> THEN NaN
        ELSE Num(IF neg THEN 0 - DigitsValue(ds) ELSE DigitsValue(ds))

\* parseFloat(text) on the texts of PriceTexts, which have no fraction part:
\* leading blanks, a sign, then digits; NaN when there is no digit
parseFloat(text) ==
    LET s == TrimStart(text)
        neg == s # <<>> /\ Head(s) = "-"
        body == IF s # <<>> /\ Head(s) \in {"-", "+"} THEN Tail(s) ELSE s
        ds == DigitPrefix(body)
    IN  IF ds = <<>> THEN NaN
        ELSE Num(IF neg THEN 0 - DigitsValue(ds) ELSE DigitsValue(ds))

\* Number.prototype.toString of an integer
RECURSIVE NatToString(_)
NatToString(n) ==
    IF n < 10 THEN <<Digits[n + 1]>> ELSE NatToString(n \div 10) \o <<Digits[(n % 10) + 1]>>
toString(v) ==
    IF IsNaN(v) THEN <<"N", "a", "N">>
    ELSE IF v.n < 0 THEN <<"-">> \o NatToString(0 - v.n) ELSE NatToString(v.n)

\* !text : the empty string is falsy
IsEmptyText(text) == text = <<>>

\* ---------------------------------------------------------------- records
\* { ...a, ...b }
Spread(a, b) ==
    [f \in DOMAIN a \cup DOMAIN b |-> IF f \in DOMAIN b THEN b[f] ELSE a[f]]

\* ------------------------------------------------------------ localStorage
INVENTORY_KEY == "vyappar_inventory"
INVOICES_KEY == "vyappar_invoices"
Keys == {INVENTORY_KEY, INVOICES_KEY}

\* a key is absent (getItem gives null) or holds the JSON text of an array
Absent == [state |-> "absent", data |-> <<>>]
Json(arr) == [state |-> "json", data |-> arr]
\* what a key can hold that the app did not write: the empty string, a text
\* that is not JSON (such as a cut-off array), the JSON text of something
\* that is not an array (such as null)
EmptyText == [state |-> "empty", data |-> <<>>]
NotJson == [state |-> "notJson", data |-> <<>>]
NotArray == [state |-> "notArray", data |-> <<>>]
Corrupted == {EmptyText, NotJson, NotArray}

VARIABLES
    localStorage,   \* the origin's storage, shared by the tabs: key -> entry
    now,            \* the wall clock, new Date(); it has moved on by the
                    \* time a handler creates the next record
    uuids,          \* number of ids crypto.randomUUID() has returned
    page,           \* per tab: the page (route) shown
    inventory,      \* per tab: Invoices page state `inventory`
    invoices,       \* per tab: Invoices page state `invoices`
    pc,             \* per tab: "idle", or "createInvoice" while it runs
    pending,        \* per tab: the writes createInvoice has still to do
    submitted,      \* per tab: history of the running submission (the id and
                    \* the invoice, and the persisted inventory when it began)
    items,          \* per tab: Inventory page state `items`
    editingId,      \* per tab: Inventory page state `editingId` (0 is null)
    editValues,     \* per tab: Inventory page state `editValues`
    edits,          \* number of edits saved so far
    lostUpdate,     \* history: a saveEdit replaced a quantity that another
                    \* tab had changed since this tab loaded it
    analytics,      \* Analytics page state, as the last loadAnalytics set it
    loaded          \* outcome of the last getInventory() / getInvoices() call
                    \* on storage that the app did not write

invoicesPageVars == <<inventory, invoices, pc, pending, submitted>>
inventoryPageVars == <<items, editingId, editValues>>
vars == <<localStorage, now, uuids, page, inventory, invoices, pc, pending,
          submitted, items, editingId, editValues, edits, lostUpdate, analytics, loaded>>

\* ------------------------------------------------------------ store module
\* JSON.parse(JSON.stringify(items))
JsonItem(item) ==
    [item EXCEPT !.quantity = JsonNumber(@), !.price = JsonNumber(@)]
JsonLine(line) ==
    [line EXCEPT !.quantity = JsonNumber(@), !.price = JsonNumber(@),
                 !.total = JsonNumber(@)]
JsonInvoice(inv) ==
    [inv EXCEPT !.items = [k \in DOMAIN inv.items |-> JsonLine(inv.items[k])],
                !.total = JsonNumber(@)]

\* data ? JSON.parse(data) : []  -- what the call does with the entry read:
\* it returns an array, returns a value that is no array, or throws
ParseOrEmpty(entry) ==
    IF entry.state \in {"absent", "empty"} THEN [outcome |-> "array", value |-> <<>>]
    ELSE IF entry.state = "json" THEN [outcome |-> "array", value |-> entry.data]
    ELSE IF entry.state = "notArray" THEN [outcome |-> "notArray", value |-> <<>>]
    ELSE [outcome |-> "SyntaxError", value |-> <<>>]

getInventory(ls) == ParseOrEmpty(ls[INVENTORY_KEY]).value

saveInventory(ls, arr) ==
    [ls EXCEPT ![INVENTORY_KEY] = Json([k \in DOMAIN arr |-> JsonItem(arr[k])])]

\* Array.prototype.findIndex / find: the first index with that id, 0 if none
FindIndex(arr, id) ==
    IF \E k \in DOMAIN arr : arr[k].id = id
    THEN CHOOSE k \in DOMAIN arr :
            arr[k].id = id /\ \A j \in 1..(k - 1) : arr[j].id # id
    ELSE 0

\* addInventoryItem putting the new item in front
addInventoryItem_Unshift(ls, item, uuid, ts) ==
    LET newItem == Spread(item, [id |-> uuid, createdAt |-> ts])
    IN  saveInventory(ls, <<newItem>> \o getInventory(ls))

addInventoryItem(ls, item, uuid, ts) ==
    LET newItem == Spread(item, [id |-> uuid, createdAt |-> ts])
    IN  saveInventory(ls, Append(getInventory(ls), newItem))

\* updateInventoryItem that also carries the new name and price into the
\* lines of the stored invoices
\* updateInventoryItem that adds the item when no item has the id
updateInventoryItem_Upsert(ls, id, updates) ==
    LET arr == getInventory(ls)
        index == FindIndex(arr, id)
    IN  IF index # 0
        THEN saveInventory(ls, [arr EXCEPT ![index] = Spread(@, updates)])
        ELSE saveInventory(ls, Append(arr, Spread([id |-> id, createdAt |-> 0], updates)))

\* updateInventoryItem that resets the fields the updates do not name
updateInventoryItem_Replace(ls, id, updates) ==
    LET arr == getInventory(ls)
        index == FindIndex(arr, id)
    IN  IF index # 0
        THEN saveInventory(ls,
                [arr EXCEPT ![index] =
                    Spread([id |-> @.id, createdAt |-> @.createdAt, name |-> <<>>,
                            quantity |-> Num(0), price |-> Num(0)], updates)])
        ELSE ls

updateInventoryItem_Cascade(ls, id, updates) ==
    LET arr == getInventory(ls)
        index == FindIndex(arr, id)
        retouch(line) ==
            IF line.itemId = id
            THEN [line EXCEPT !.itemName = updates.name, !.price = JsonNumber(updates.price)]
            ELSE line
        invs == IF ls[INVOICES_KEY].state = "absent" THEN <<>> ELSE ls[INVOICES_KEY].data
    IN  IF index # 0
        THEN [saveInventory(ls, [arr EXCEPT ![index] = Spread(@, updates)])
                EXCEPT ![INVOICES_KEY] =
                    [state |-> ls[INVOICES_KEY].state,
                     data |-> [k \in DOMAIN invs |->
                                [invs[k] EXCEPT !.items =
                                    [j \in DOMAIN invs[k].items |->
                                        retouch(invs[k].items[j])]]]]]
        ELSE ls

\* updateInventoryItem that keeps the stored quantity when the stored one is
\* lower than the new one
updateInventoryItem_KeepLower(ls, id, updates) ==
    LET arr == getInventory(ls)
        index == FindIndex(arr, id)
    IN  IF index # 0
        THEN saveInventory(ls,
                [arr EXCEPT ![index] =
                    IF Lt(@.quantity, updates.quantity)
                    THEN Spread(@, [name |-> updates.name, price |-> updates.price])
                    ELSE Spread(@, updates)])
        ELSE ls

updateInventoryItem(ls, id, updates) ==
    LET arr == getInventory(ls)
        index == FindIndex(arr, id)
    IN  IF index # 0
        THEN saveInventory(ls, [arr EXCEPT ![index] = Spread(@, updates)])
        ELSE ls

deleteInventoryItem(ls, id) ==
    saveInventory(ls, SelectSeq(getInventory(ls), LAMBDA item : item.id # id))

\* reduceInventoryQuantity without the Math.max(0, ...) clamp
reduceInventoryQuantity_NoClamp(ls, itemId, quantity) ==
    LET arr == getInventory(ls)
        index == FindIndex(arr, itemId)
    IN  IF index # 0
        THEN saveInventory(ls, [arr EXCEPT ![index].quantity = Sub(@, quantity)])
        ELSE ls

reduceInventoryQuantity(ls, itemId, quantity) ==
    LET arr == getInventory(ls)
        index == FindIndex(arr, itemId)
    IN  IF index # 0
        THEN saveInventory(ls,
                [arr EXCEPT ![index].quantity = MathMax(Num(0), Sub(@, quantity))])
        ELSE ls

getInvoices(ls) == ParseOrEmpty(ls[INVOICES_KEY]).value

saveInvoices(ls, arr) ==
    [ls EXCEPT ![INVOICES_KEY] = Json([k \in DOMAIN arr |-> JsonInvoice(arr[k])])]

\* createInvoice reducing the inventory before it saves the invoice
createInvoice_ReduceFirst(invoice, uuid, ts) ==
    LET newInvoice == Spread(invoice, [id |-> uuid, createdAt |-> ts])
    IN  [k \in DOMAIN invoice.items |->
            [op |-> "reduceInventoryQuantity", line |-> invoice.items[k]]] \o
        <<[op |-> "saveInvoices", invoice |-> newInvoice]>>

\* createInvoice as the sequence of localStorage writes it performs, in
\* order: the invoice collection first, then one inventory write per line
createInvoice(invoice, uuid, ts) ==
    LET newInvoice == Spread(invoice, [id |-> uuid, createdAt |-> ts])
    IN  <<[op |-> "saveInvoices", invoice |-> newInvoice]>> \o
        [k \in DOMAIN invoice.items |->
            [op |-> "reduceInventoryQuantity", line |-> invoice.items[k]]]

\* one write of createInvoice
ApplyWrite(ls, w) ==
    IF w.op = "saveInvoices"
    THEN saveInvoices(ls, Append(getInvoices(ls), w.invoice))
    ELSE reduceInventoryQuantity(ls, w.line.itemId, w.line.quantity)

RECURSIVE ApplyWrites(_, _)
ApplyWrites(ls, ws) ==
    IF ws = <<>> THEN ls ELSE ApplyWrites(ApplyWrite(ls, Head(ws)), Tail(ws))

\* deleteInvoice that gives the invoice's units back to the inventory
deleteInvoice_Restock(ls, id) ==
    LET invs == IF ls[INVOICES_KEY].state = "absent" THEN <<>> ELSE ls[INVOICES_KEY].data
        gone == SelectSeq(invs, LAMBDA inv : inv.id = id)
        back(item) ==
            IF gone = <<>> THEN item
            ELSE [item EXCEPT !.quantity =
                    Num(@.n + Cardinality({j \in DOMAIN gone[1].items :
                                              gone[1].items[j].itemId = item.id}))]
        arr == getInventory(ls)
    IN  [saveInvoices(ls, SelectSeq(invs, LAMBDA inv : inv.id # id))
            EXCEPT ![INVENTORY_KEY] =
                [state |-> ls[INVENTORY_KEY].state,
                 data |-> [k \in DOMAIN arr |-> back(arr[k])]]]

deleteInvoice(ls, id) ==
    saveInvoices(ls, SelectSeq(getInvoices(ls), LAMBDA inv : inv.id # id))

\* ----------------------------------------------------------- bounded inputs
\* texts typed into the add form of the Inventory page
NameTexts == {<<>>, <<" ">>, <<" ", "W">>}
QuantityTexts == {<<>>, <<"-", "1">>, <<"1", "0">>}
PriceTexts == {<<>>, <<"0">>, <<"5", "0">>}
\* texts typed into the inputs of an edited row
EditNameTexts == {<<" ">>, <<"G">>}
EditQuantityTexts == {<<>>, <<"-", "1">>, <<"2">>}
EditPriceTexts == {<<>>, <<"0">>, <<"7">>}
\* texts typed into the customer name input
CustomerTexts == {<<>>, <<" ">>, <<"A", " ">>}
\* quantities a row of the invoice form can hold: parseInt(value) || 1
FormQuantities == {-1, 8}

\* ------------------------------------------------------------ page helpers
\* arr.sort((a, b) => new Date(b.createdAt) - new Date(a.createdAt)):
\* newest first, stable
InsertNewestFirst(sorted, x) ==
    LET k == Cardinality({j \in DOMAIN sorted : sorted[j].createdAt >= x.createdAt})
    IN  SubSeq(sorted, 1, k) \o <<x>> \o SubSeq(sorted, k + 1, Len(sorted))
RECURSIVE SortNewestFirst(_)
SortNewestFirst(arr) ==
    IF arr = <<>> THEN <<>>
    ELSE InsertNewestFirst(SortNewestFirst(SubSeq(arr, 1, Len(arr) - 1)), arr[Len(arr)])

NoEditValues == [name |-> <<>>, quantity |-> <<>>, price |-> <<>>]

Ids(arr) == {arr[k].id : k \in DOMAIN arr}

\* getTopSellingProduct() returning null
NoProduct == [kind |-> "null", name |-> <<>>, quantity |-> Num(0)]

\* the Analytics page's state before loadAnalytics has run
NoAnalytics ==
    [todaySales |-> Num(0), monthSales |-> Num(0), topProduct |-> NoProduct,
     lowStockCount |-> 0, insights |-> <<>>, invoiceCount |-> 0,
     inventoryValue |-> Num(0)]

\* no collection has been loaded
NotLoaded == [key |-> "", outcome |-> "none", value |-> <<>>]

\* --------------------------------------------------------------------- Init
Init ==
    /\ localStorage = [k \in Keys |-> Absent]
    /\ now = 0
    /\ uuids = 0
    /\ page = [t \in Tabs |-> "invoices"]
    /\ inventory = [t \in Tabs |-> <<>>]
    /\ invoices = [t \in Tabs |-> <<>>]
    /\ pc = [t \in Tabs |-> "idle"]
    /\ pending = [t \in Tabs |-> <<>>]
    /\ submitted = [t \in Tabs |-> <<>>]
    /\ items = [t \in Tabs |-> <<>>]
    /\ editingId = [t \in Tabs |-> 0]
    /\ editValues = [t \in Tabs |-> NoEditValues]
    /\ edits = 0
    /\ lostUpdate = FALSE
    /\ analytics = NoAnalytics
    /\ loaded = NotLoaded

\* a tab opens a route (or is reloaded): the page mounts with fresh state and
\* its useEffect runs loadData / loadItems
Mount(t, p) ==
    /\ pc[t] = "idle"
    /\ page' = [page EXCEPT ![t] = p]
    /\ inventory' = [inventory EXCEPT ![t] =
                        IF p = "invoices" THEN getInventory(localStorage) ELSE <<>>]
    /\ invoices' = [invoices EXCEPT ![t] =
                        IF p = "invoices" THEN SortNewestFirst(getInvoices(localStorage))
                        ELSE <<>>]
    /\ items' = [items EXCEPT ![t] =
                        IF p = "inventory" THEN SortNewestFirst(getInventory(localStorage))
                        ELSE <<>>]
    /\ editingId' = [editingId EXCEPT ![t] = 0]
    /\ editValues' = [editValues EXCEPT ![t] = NoEditValues]
    /\ UNCHANGED <<localStorage, now, uuids, pc, pending, submitted, edits, lostUpdate, analytics, loaded>>

\* ----------------------------------------------------------- Inventory page
loadItems(ls) == SortNewestFirst(getInventory(ls))

\* the checks of Inventory.handleSubmit: the toast it shows, or "ok"
InventorySubmitCheck(name, quantity, price) ==
    IF IsEmptyText(Trim(name)) THEN "Please enter item name"
    ELSE IF IsEmptyText(quantity) \/ Lt(parseInt(quantity), Num(0))
    THEN "Please enter valid quantity"
    ELSE IF IsEmptyText(price) \/ Le(parseFloat(price), Num(0))
    THEN "Please enter valid price"
    ELSE "ok"

\* Inventory.handleSubmit with the form holding name, quantity, price
InventoryHandleSubmit(t, name, quantity, price) ==
    /\ page[t] = "inventory"
    /\ IF InventorySubmitCheck(name, quantity, price) = "ok"
       THEN /\ uuids < MaxUuids
            /\ localStorage' = addInventoryItem(localStorage,
                                  [name |-> Trim(name),
                                   quantity |-> parseInt(quantity),
                                   price |-> parseFloat(price)],
                                  uuids + 1, now)
            /\ uuids' = uuids + 1
            /\ now' = now + 1
            /\ items' = [items EXCEPT ![t] = loadItems(localStorage')]
       ELSE UNCHANGED <<localStorage, uuids, now, items>>
    /\ UNCHANGED <<page, invoicesPageVars, editingId, editValues, edits, lostUpdate, analytics, loaded>>

\* Inventory.handleDelete on a row of the list shown
InventoryHandleDelete(t, id) ==
    /\ page[t] = "inventory"
    /\ id \in Ids(items[t])
    /\ localStorage' = deleteInventoryItem(localStorage, id)
    /\ items' = [items EXCEPT ![t] = loadItems(localStorage')]
    /\ UNCHANGED <<now, uuids, page, invoicesPageVars, editingId, editValues,
                   edits, lostUpdate, analytics, loaded>>

\* startEdit on row k of the list shown.  item.quantity.toString() throws
\* on a null quantity or price, after setEditingId was called
startEdit(t, k) ==
    /\ page[t] = "inventory"
    /\ k \in DOMAIN items[t]
    /\ editingId' = [editingId EXCEPT ![t] = items[t][k].id]
    /\ editValues' =
          IF items[t][k].quantity.kind = "null" \/ items[t][k].price.kind = "null"
          THEN editValues
          ELSE [editValues EXCEPT ![t] =
                    [name |-> items[t][k].name,
                     quantity |-> toString(items[t][k].quantity),
                     price |-> toString(items[t][k].price)]]
    /\ UNCHANGED <<localStorage, now, uuids, page, invoicesPageVars, items, edits, lostUpdate, analytics, loaded>>

\* the row being edited is on screen
EditRowShown(t) ==
    /\ page[t] = "inventory"
    /\ editingId[t] # 0
    /\ editingId[t] \in Ids(items[t])

cancelEdit(t) ==
    /\ EditRowShown(t)
    /\ editingId' = [editingId EXCEPT ![t] = 0]
    /\ editValues' = [editValues EXCEPT ![t] = NoEditValues]
    /\ UNCHANGED <<localStorage, now, uuids, page, invoicesPageVars, items, edits, lostUpdate, analytics, loaded>>

\* the check of saveEdit: TRUE when the values are refused
SaveEditRefused(values) ==
    \/ IsEmptyText(Trim(values.name))
    \/ Lt(parseInt(values.quantity), Num(0))
    \/ Le(parseFloat(values.price), Num(0))

\* the updates object saveEdit passes to updateInventoryItem
SaveEditUpdates(values) ==
    [name |-> Trim(values.name),
     quantity |-> parseInt(values.quantity),
     price |-> parseFloat(values.price)]

\* a write of `updates` to item id drops a change made by someone else since
\* `seen` was loaded
DropsUpdate(ls, seen, id, updates) ==
    LET arr == getInventory(ls)
    IN  /\ FindIndex(arr, id) # 0
        /\ FindIndex(seen, id) # 0
        /\ arr[FindIndex(arr, id)].quantity # seen[FindIndex(seen, id)].quantity
        /\ JsonNumber(updates.quantity) # arr[FindIndex(arr, id)].quantity

\* saveEdit, the user having typed `typed` (field -> text, for the inputs
\* touched) into the edited row since startEdit filled it
saveEdit(t, typed) ==
    /\ EditRowShown(t)
    /\ IF SaveEditRefused(Spread(editValues[t], typed))
       THEN UNCHANGED <<localStorage, items, editingId, editValues, edits, lostUpdate>>
       ELSE /\ edits < MaxEdits
            /\ edits' = edits + 1
            /\ localStorage' = updateInventoryItem(localStorage, editingId[t],
                                  SaveEditUpdates(Spread(editValues[t], typed)))
            /\ lostUpdate' = (lostUpdate \/
                                DropsUpdate(localStorage, items[t], editingId[t],
                                    SaveEditUpdates(Spread(editValues[t], typed))))
            /\ editingId' = [editingId EXCEPT ![t] = 0]
            /\ editValues' = [editValues EXCEPT ![t] = NoEditValues]
            /\ items' = [items EXCEPT ![t] = loadItems(localStorage')]
    /\ UNCHANGED <<now, uuids, page, invoicesPageVars, analytics, loaded>>

\* ------------------------------------------------------------ Invoices page
\* the rows the form can hold: an item picked in the Select (0 is the empty
\* itemId of a fresh row) and a quantity
FormRows == [itemId : 0..uuids, quantity : FormQuantities]
FormItems == UNION {[1..n -> FormRows] : n \in 1..MaxLines}

\* the forms submitted with a customer name: a blank name is refused
\* before the rows are looked at, so it is tried with the fresh form only
FormItemsWith(customerName) ==
    IF IsEmptyText(Trim(customerName)) THEN {<<[itemId |-> 0, quantity |-> 1]>>}
    ELSE FormItems

validItems(formItems) ==
    SelectSeq(formItems, LAMBDA fi : fi.itemId # 0 /\ fi.quantity > 0)

\* the stock check of handleSubmit against the page's `inventory` state
InsufficientStock(inv, valid) ==
    \E k \in DOMAIN valid :
        /\ FindIndex(inv, valid[k].itemId) # 0
        /\ Gt(Num(valid[k].quantity), inv[FindIndex(inv, valid[k].itemId)].quantity)

\* inventory.find(...)! is undefined for some row: reading .name throws
FindThrows(inv, valid) ==
    \E k \in DOMAIN valid : FindIndex(inv, valid[k].itemId) = 0

\* invoiceItems with the line total taken as the unit price
invoiceItems_UnitTotal(inv, valid) ==
    [k \in DOMAIN valid |->
        LET inventoryItem == inv[FindIndex(inv, valid[k].itemId)]
        IN  [itemId |-> valid[k].itemId,
             itemName |-> inventoryItem.name,
             quantity |-> Num(valid[k].quantity),
             price |-> inventoryItem.price,
             total |-> inventoryItem.price]]

invoiceItems(inv, valid) ==
    [k \in DOMAIN valid |->
        LET inventoryItem == inv[FindIndex(inv, valid[k].itemId)]
        IN  [itemId |-> valid[k].itemId,
             itemName |-> inventoryItem.name,
             quantity |-> Num(valid[k].quantity),
             price |-> inventoryItem.price,
             total |-> Mul(inventoryItem.price, Num(valid[k].quantity))]]

\* lines.reduce((sum, item) => sum + item.total, 0)
RECURSIVE SumTotals(_)
SumTotals(lines) ==
    IF lines = <<>> THEN Num(0)
    ELSE Add(SumTotals(SubSeq(lines, 1, Len(lines) - 1)), lines[Len(lines)].total)

\* the checks of Invoices.handleSubmit: the toast it shows, "TypeError" when
\* it throws, or "ok"
InvoicesSubmitCheck(inv, customerName, formItems) ==
    IF IsEmptyText(Trim(customerName)) THEN "Please enter customer name"
    ELSE IF validItems(formItems) = <<>> THEN "Please add at least one item"
    ELSE IF InsufficientStock(inv, validItems(formItems)) THEN "Insufficient Stock"
    ELSE IF FindThrows(inv, validItems(formItems)) THEN "TypeError"
    ELSE "ok"

\* the argument handleSubmit passes to createInvoice
InvoiceDraft(inv, customerName, formItems) ==
    [customerName |-> Trim(customerName),
     items |-> invoiceItems(inv, validItems(formItems)),
     total |-> SumTotals(invoiceItems(inv, validItems(formItems)))]

\* Invoices.handleSubmit up to and including the first write of
\* createInvoice; the button is disabled while `inventory` is empty
InvoicesHandleSubmit(t, customerName, formItems) ==
    /\ page[t] = "invoices"
    /\ pc[t] = "idle"
    /\ inventory[t] # <<>>
    /\ IF InvoicesSubmitCheck(inventory[t], customerName, formItems) = "ok"
       THEN LET writes == createInvoice(
                            InvoiceDraft(inventory[t], customerName, formItems),
                            uuids + 1, now)
            IN  /\ uuids < MaxUuids
                /\ uuids' = uuids + 1
                /\ now' = now + 1
                /\ localStorage' = ApplyWrite(localStorage, Head(writes))
                /\ pending' = [pending EXCEPT ![t] = Tail(writes)]
                /\ pc' = [pc EXCEPT ![t] = "createInvoice"]
                /\ submitted' = [submitted EXCEPT ![t] =
                      <<[id |-> uuids + 1,
                         invoice |-> InvoiceDraft(inventory[t], customerName, formItems),
                         stock |-> getInventory(localStorage)]>>]
       ELSE UNCHANGED <<localStorage, uuids, now, pending, pc, submitted>>
    /\ UNCHANGED <<page, inventory, invoices, inventoryPageVars, edits, lostUpdate, analytics, loaded>>

\* the next write of the createInvoice call that tab t is running
createInvoiceStep(t) ==
    /\ pc[t] = "createInvoice"
    /\ pending[t] # <<>>
    /\ localStorage' = ApplyWrite(localStorage, Head(pending[t]))
    /\ pending' = [pending EXCEPT ![t] = Tail(pending[t])]
    /\ UNCHANGED <<now, uuids, page, inventory, invoices, pc, submitted,
                   inventoryPageVars, edits, lostUpdate, analytics, loaded>>

\* createInvoice has returned: the rest of handleSubmit (toast, reset of the
\* form, loadData)
InvoicesSubmitDone(t) ==
    /\ pc[t] = "createInvoice"
    /\ pending[t] = <<>>
    /\ pc' = [pc EXCEPT ![t] = "idle"]
    /\ submitted' = [submitted EXCEPT ![t] = <<>>]
    /\ inventory' = [inventory EXCEPT ![t] = getInventory(localStorage)]
    /\ invoices' = [invoices EXCEPT ![t] = SortNewestFirst(getInvoices(localStorage))]
    /\ UNCHANGED <<localStorage, now, uuids, page, pending, inventoryPageVars,
                   edits, lostUpdate, analytics, loaded>>

\* the tab is closed while createInvoice still has writes to do; it is
\* opened again later on the start route
Interrupt(t) ==
    /\ pc[t] = "createInvoice"
    /\ pending[t] # <<>>
    /\ pc' = [pc EXCEPT ![t] = "idle"]
    /\ pending' = [pending EXCEPT ![t] = <<>>]
    /\ submitted' = [submitted EXCEPT ![t] = <<>>]
    /\ page' = [page EXCEPT ![t] = "invoices"]
    /\ inventory' = [inventory EXCEPT ![t] = getInventory(localStorage)]
    /\ invoices' = [invoices EXCEPT ![t] = SortNewestFirst(getInvoices(localStorage))]
    /\ UNCHANGED <<localStorage, now, uuids, inventoryPageVars, edits, lostUpdate, analytics, loaded>>

\* Invoices.handleDelete on an invoice of the list shown
InvoicesHandleDelete(t, id) ==
    /\ page[t] = "invoices"
    /\ pc[t] = "idle"
    /\ id \in Ids(invoices[t])
    /\ localStorage' = deleteInvoice(localStorage, id)
    /\ inventory' = [inventory EXCEPT ![t] = getInventory(localStorage')]
    /\ invoices' = [invoices EXCEPT ![t] = SortNewestFirst(getInvoices(localStorage'))]
    /\ UNCHANGED <<now, uuids, page, pc, pending, submitted, inventoryPageVars,
                   edits, lostUpdate, analytics, loaded>>

\* ------------------------------------------------------------ specification
Pages == {"invoices", "inventory"}
EditFields == {"name", "quantity", "price"}
EditTexts(field) ==
    IF field = "name" THEN EditNameTexts
    ELSE IF field = "quantity" THEN EditQuantityTexts ELSE EditPriceTexts

\* what the user may have typed into the edited row: a text for each input
\* touched (onChange: setEditValues({ ...editValues, [field]: text }))
TypedEdits ==
    UNION {{typed \in [F -> EditNameTexts \cup EditQuantityTexts \cup EditPriceTexts] :
                \A field \in F : typed[field] \in EditTexts(field)} :
           F \in SUBSET EditFields}

Next ==
    \/ \E t \in Tabs, p \in Pages : Mount(t, p)
    \/ \E t \in Tabs, name \in NameTexts, quantity \in QuantityTexts,
          price \in PriceTexts : InventoryHandleSubmit(t, name, quantity, price)
    \/ \E t \in Tabs, id \in 1..uuids : InventoryHandleDelete(t, id)
    \/ \E t \in Tabs, k \in 1..MaxUuids : startEdit(t, k)
    \/ \E t \in Tabs : cancelEdit(t)
    \/ \E t \in Tabs, typed \in TypedEdits : saveEdit(t, typed)
    \/ \E t \in Tabs, customerName \in CustomerTexts :
          \E formItems \in FormItemsWith(customerName) :
              InvoicesHandleSubmit(t, customerName, formItems)
    \/ \E t \in Tabs : createInvoiceStep(t)
    \/ \E t \in Tabs : InvoicesSubmitDone(t)
    \/ \E t \in Tabs : Interrupt(t)
    \/ \E t \in Tabs, id \in 1..uuids : InvoicesHandleDelete(t, id)

Spec == Init /\ [][Next]_vars

\* ------------------------------------------------------- analytics helpers
\* Times are milliseconds; the clock reads 0 at local midnight, 25 December
\* 2025, so that the month and the year change 7 days later.
DayMs == 24 * 60 * 60 * 1000
WeekMs == 7 * 24 * 60 * 60 * 1000

\* Date.prototype.toDateString: the local calendar date, as a day number
toDateString(t) == t \div DayMs
\* Date.prototype.getMonth (0 is January)
getMonth(t) == IF t \div DayMs < 7 THEN 11 ELSE 0
getFullYear(t) == IF t \div DayMs < 7 THEN 2025 ELSE 2026

getTodaySales(ls, t) ==
    LET today == toDateString(t)
    IN  SumTotals(SelectSeq(getInvoices(ls),
                    LAMBDA inv : toDateString(inv.createdAt) = today))

getThisMonthSales(ls, t) ==
    LET thisMonth == getMonth(t)
        thisYear == getFullYear(t)
    IN  SumTotals(SelectSeq(getInvoices(ls),
                    LAMBDA inv : getMonth(inv.createdAt) = thisMonth
                                  /\ getFullYear(inv.createdAt) = thisYear))

getLastWeekSales(ls, t) ==
    LET oneWeekAgo == t - WeekMs
        twoWeeksAgo == t - 2 * WeekMs
    IN  SumTotals(SelectSeq(getInvoices(ls),
                    LAMBDA inv : inv.createdAt >= twoWeeksAgo /\ inv.createdAt < oneWeekAgo))

getThisWeekSales(ls, t) ==
    LET oneWeekAgo == t - WeekMs
    IN  SumTotals(SelectSeq(getInvoices(ls), LAMBDA inv : inv.createdAt >= oneWeekAgo))

\* all the lines of the invoices, in invoice order and line order
RECURSIVE AllLines(_)
AllLines(invs) ==
    IF invs = <<>> THEN <<>> ELSE Head(invs).items \o AllLines(Tail(invs))

\* productSales after the lines: one entry per itemId, in the order the
\* itemIds were first seen (the keys are UUIDs, so Object.values gives
\* insertion order)
RECURSIVE productSales(_)
productSales(lines) ==
    IF lines = <<>> THEN <<>>
    ELSE LET sales == productSales(SubSeq(lines, 1, Len(lines) - 1))
             item == lines[Len(lines)]
             started ==
                IF \E k \in DOMAIN sales : sales[k].itemId = item.itemId THEN sales
                ELSE Append(sales, [itemId |-> item.itemId, name |-> item.itemName,
                                    quantity |-> Num(0)])
         IN  [k \in DOMAIN started |->
                IF started[k].itemId = item.itemId
                THEN [started[k] EXCEPT !.quantity = Add(@, item.quantity)]
                ELSE started[k]]

\* products.reduce((top, product) => product.quantity > top.quantity ? product : top)
RECURSIVE ReduceTop(_)
ReduceTop(products) ==
    IF Len(products) = 1 THEN products[1]
    ELSE LET top == ReduceTop(SubSeq(products, 1, Len(products) - 1))
             product == products[Len(products)]
         IN  IF Gt(product.quantity, top.quantity) THEN product ELSE top

\* getTopSellingProduct where a later product with an equal quantity takes
\* the lead
getTopSellingProduct_LastWins(ls) ==
    LET products == productSales(AllLines(getInvoices(ls)))
        last == CHOOSE k \in DOMAIN products :
                    /\ \A j \in DOMAIN products :
                          Le(products[j].quantity, products[k].quantity)
                    /\ \A j \in DOMAIN products :
                          products[j].quantity = products[k].quantity => j <= k
    IN  IF Len(products) = 0 THEN NoProduct
        ELSE [kind |-> "product", name |-> products[last].name,
              quantity |-> products[last].quantity]

getTopSellingProduct(ls) ==
    LET products == productSales(AllLines(getInvoices(ls)))
    IN  IF Len(products) = 0 THEN NoProduct
        ELSE [kind |-> "product", name |-> ReduceTop(products).name,
              quantity |-> ReduceTop(products).quantity]

\* getLowStockItems with the threshold counted as low
getLowStockItems_Inclusive(ls) ==
    SelectSeq(getInventory(ls), LAMBDA item : Le(item.quantity, Num(5)))

getLowStockItems(ls) ==
    SelectSeq(getInventory(ls), LAMBDA item : Lt(item.quantity, Num(5)))

\* an insight string: the template chosen and what is filled into it
Insight(rule, names, n) == [rule |-> rule, names |-> names, n |-> n]

\* ((thisWeek - lastWeek) / lastWeek * 100).toFixed(0), for lastWeek > 0
PercentIncrease(thisWeekSales, lastWeekSales) ==
    (200 * (thisWeekSales.n - lastWeekSales.n) + lastWeekSales.n)
        \div (2 * lastWeekSales.n)

\* the parts of generateInsights, each giving the strings it pushes
SalesTrendInsight(ls, t) ==
    LET thisWeekSales == getThisWeekSales(ls, t)
        lastWeekSales == getLastWeekSales(ls, t)
    IN  IF Gt(thisWeekSales, lastWeekSales) /\ Gt(lastWeekSales, Num(0))
        THEN <<Insight("Sales are up", <<>>, PercentIncrease(thisWeekSales, lastWeekSales))>>
        ELSE IF Lt(thisWeekSales, lastWeekSales) /\ Gt(lastWeekSales, Num(0))
        THEN <<Insight("Sales have decreased", <<>>, 0)>>
        ELSE IF Gt(thisWeekSales, Num(0))
        THEN <<Insight("steady sales", <<>>, 0)>>
        ELSE <<>>

LowStockInsight(ls) ==
    LET lowStockItems == getLowStockItems(ls)
        shown == SubSeq(lowStockItems, 1, IF Len(lowStockItems) > 2 THEN 2 ELSE Len(lowStockItems))
    IN  IF Len(lowStockItems) > 0
        THEN <<Insight("Low stock alert", [k \in DOMAIN shown |-> shown[k].name],
                       IF Len(lowStockItems) > 2 THEN Len(lowStockItems) - 2 ELSE 0)>>
        ELSE <<>>

TopProductInsight(ls) ==
    LET topProduct == getTopSellingProduct(ls)
    IN  IF topProduct.kind # "null" /\ Gt(topProduct.quantity, Num(3))
        THEN <<Insight("best seller", <<topProduct.name>>, topProduct.quantity.n)>>
        ELSE <<>>

DailyInsight(ls, t) ==
    LET todaySales == getTodaySales(ls, t)
    IN  IF Gt(todaySales, Num(0))
        THEN <<Insight("sales today", <<>>, todaySales.n)>>
        ELSE <<>>

Welcome == Insight("Welcome", <<>>, 0)

\* generateInsights with the low stock warning put first
generateInsights_StockFirst(ls, t) ==
    LET insights == LowStockInsight(ls) \o SalesTrendInsight(ls, t)
                        \o TopProductInsight(ls) \o DailyInsight(ls, t)
    IN  IF Len(insights) = 0 THEN <<Welcome>> ELSE insights

generateInsights(ls, t) ==
    LET insights == SalesTrendInsight(ls, t) \o LowStockInsight(ls)
                        \o TopProductInsight(ls) \o DailyInsight(ls, t)
    IN  IF Len(insights) = 0 THEN <<Welcome>> ELSE insights

\* inventory.reduce((sum, item) => sum + (item.quantity * item.price), 0)
RECURSIVE InventoryValue(_)
InventoryValue(arr) ==
    IF arr = <<>> THEN Num(0)
    ELSE Add(InventoryValue(SubSeq(arr, 1, Len(arr) - 1)),
             Mul(arr[Len(arr)].quantity, arr[Len(arr)].price))

\* --------------------------------------------- the store module called directly
\* The exported functions of the store module applied to arguments of their
\* declared types, with no page in between.
RawNames == {<<>>, <<"W">>}
RawQuantities == {Num(-1), Num(0), Num(5)}
RawPrices == {Num(0), Num(50)}
RawItems == [name : RawNames, quantity : RawQuantities, price : RawPrices]
RawAmounts == {Num(1), Num(8)}
RawLines ==
    {[itemId |-> id, itemName |-> <<"W">>, quantity |-> q, price |-> Num(50),
      total |-> Mul(Num(50), q)] : id \in 1..MaxUuids, q \in RawAmounts}
RawInvoices ==
    {[customerName |-> c, items |-> ls, total |-> SumTotals(ls)] :
        c \in {<<>>, <<"A">>},
        ls \in UNION {[1..n -> RawLines] : n \in 0..MaxLines}}

\* updates: Partial<InventoryItem>, any subset of the fields of an item.  An
\* id is one that randomUUID has returned, a createdAt a time that has been
UpdateFields == {"name", "quantity", "price", "id", "createdAt"}
UpdateValues ==
    [name : {<<"G">>}, quantity : {Num(2)}, price : {Num(7)},
     id : 1..uuids, createdAt : 0..now]
RawUpdates ==
    {[field \in F |-> values[field]] : F \in SUBSET UpdateFields, values \in UpdateValues}

pageVars == <<page, invoicesPageVars, inventoryPageVars, edits, lostUpdate, analytics, loaded>>

RepoAdd(item) ==
    /\ uuids < MaxUuids
    /\ localStorage' = addInventoryItem(localStorage, item, uuids + 1, now)
    /\ uuids' = uuids + 1
    /\ now' = now + 1
    /\ UNCHANGED pageVars

RepoUpdate(id, updates) ==
    /\ localStorage' = updateInventoryItem(localStorage, id, updates)
    /\ UNCHANGED <<uuids, now, pageVars>>

RepoDelete(id) ==
    /\ localStorage' = deleteInventoryItem(localStorage, id)
    /\ UNCHANGED <<uuids, now, pageVars>>

RepoReduce(id, amount) ==
    /\ localStorage' = reduceInventoryQuantity(localStorage, id, amount)
    /\ UNCHANGED <<uuids, now, pageVars>>

\* createInvoice run to its end
RepoCreate(invoice) ==
    /\ uuids < MaxUuids
    /\ localStorage' = ApplyWrites(localStorage, createInvoice(invoice, uuids + 1, now))
    /\ uuids' = uuids + 1
    /\ now' = now + 1
    /\ UNCHANGED pageVars

RepoDeleteInvoice(id) ==
    /\ localStorage' = deleteInvoice(localStorage, id)
    /\ UNCHANGED <<uuids, now, pageVars>>

NextRepo ==
    \/ \E item \in RawItems : RepoAdd(item)
    \/ \E id \in 1..MaxUuids, updates \in RawItems : RepoUpdate(id, updates)
    \/ \E id \in 1..MaxUuids : RepoDelete(id)
    \/ \E id \in 1..MaxUuids, amount \in RawAmounts : RepoReduce(id, amount)
    \/ \E invoice \in RawInvoices : RepoCreate(invoice)
    \/ \E id \in 1..MaxUuids : RepoDeleteInvoice(id)

SpecRepo == Init /\ [][NextRepo]_vars

\* ------------------------------------- the store module with partial updates
\* The inventory functions called with valid items and with updates naming
\* any subset of an item's fields; invoices of one line are created so that
\* the invoice collection has content.
ValidItems == {item \in RawItems : item.name # <<>> /\ Le(Num(0), item.quantity) /\ Lt(Num(0), item.price)}
OneLineInvoices == {invoice \in RawInvoices : invoice.customerName # <<>> /\ Len(invoice.items) = 1}

NextUpdate ==
    \/ \E item \in ValidItems : RepoAdd(item)
    \/ \E id \in 1..MaxUuids, updates \in RawUpdates : RepoUpdate(id, updates)
    \/ \E id \in 1..MaxUuids : RepoDelete(id)
    \/ \E invoice \in OneLineInvoices : RepoCreate(invoice)

SpecUpdate == Init /\ [][NextUpdate]_vars

\* ------------------------------------------------------- the Analytics page
\* One tab.  Items are added and invoices created on the other pages, which
\* unmounts the Analytics page; the clock moves between the calls; the page
\* is opened (or its Refresh button clicked) and loadAnalytics runs.
SoldLines ==
    {[itemId |-> id, itemName |-> IF id = 1 THEN <<"W">> ELSE <<"G">>,
      quantity |-> q, price |-> Num(50), total |-> Mul(Num(50), q)] :
        id \in 1..2, q \in RawAmounts}
SoldInvoices ==
    {[customerName |-> <<"A">>, items |-> lines, total |-> SumTotals(lines)] :
        lines \in {<<line>> : line \in SoldLines}
                    \cup {<<first, second>> : first \in {line \in SoldLines : line.itemId = 1},
                                              second \in {line \in SoldLines : line.itemId = 2}}}

\* instants at which something is done after the start
ClockTimes == {1, WeekMs - 1, WeekMs, WeekMs + 1, 2 * WeekMs, 2 * WeekMs + 1}

ClockAdvance(t) ==
    /\ t > now
    /\ now' = t
    /\ UNCHANGED <<localStorage, uuids, pageVars>>

\* addInventoryItem called from the Inventory page
AddItemNow(item) ==
    /\ uuids < MaxRecords
    /\ localStorage' = addInventoryItem(localStorage, item, uuids + 1, now)
    /\ uuids' = uuids + 1
    /\ analytics' = NoAnalytics
    /\ UNCHANGED <<now, page, invoicesPageVars, inventoryPageVars, edits, lostUpdate, loaded>>

\* createInvoice called from the Invoices page, run to its end
CreateInvoiceNow(invoice) ==
    /\ uuids < MaxRecords
    /\ localStorage' = ApplyWrites(localStorage, createInvoice(invoice, uuids + 1, now))
    /\ uuids' = uuids + 1
    /\ analytics' = NoAnalytics
    /\ UNCHANGED <<now, page, invoicesPageVars, inventoryPageVars, edits, lostUpdate, loaded>>

loadAnalytics ==
    /\ analytics' =
          [todaySales |-> getTodaySales(localStorage, now),
           monthSales |-> getThisMonthSales(localStorage, now),
           topProduct |-> getTopSellingProduct(localStorage),
           lowStockCount |-> Len(getLowStockItems(localStorage)),
           insights |-> generateInsights(localStorage, now),
           invoiceCount |-> Len(getInvoices(localStorage)),
           inventoryValue |-> InventoryValue(getInventory(localStorage))]
    /\ UNCHANGED <<localStorage, now, uuids, page, invoicesPageVars, inventoryPageVars,
                   edits, lostUpdate, loaded>>

NextAnalytics ==
    \/ \E t \in ClockTimes : ClockAdvance(t)
    \/ \E item \in ValidItems : AddItemNow(item)
    \/ \E invoice \in SoldInvoices : CreateInvoiceNow(invoice)
    \/ loadAnalytics

SpecAnalytics == Init /\ [][NextAnalytics]_vars

\* ------------------------------------------- storage the app did not write
\* The content of a key is replaced from outside the app (site data cleared
\* or edited, a write cut short), and a collection is loaded.
StoredItems == {Spread(item, [id |-> 1, createdAt |-> 0]) : item \in ValidItems}
StoredInvoices == {Spread(invoice, [id |-> 2, createdAt |-> 0]) : invoice \in OneLineInvoices}
StoredEntries(key) ==
    {Absent, Json(<<>>)} \cup Corrupted
        \cup {Json(<<record>>) :
                record \in IF key = INVENTORY_KEY THEN StoredItems ELSE StoredInvoices}

Tamper(key, entry) ==
    /\ localStorage' = [localStorage EXCEPT ![key] = entry]
    /\ loaded' = NotLoaded
    /\ UNCHANGED <<now, uuids, page, invoicesPageVars, inventoryPageVars, edits,
                   lostUpdate, analytics>>

\* getInventory() or getInvoices() is called
Load(key) ==
    /\ loaded' = [key |-> key,
                  outcome |-> ParseOrEmpty(localStorage[key]).outcome,
                  value |-> ParseOrEmpty(localStorage[key]).value]
    /\ UNCHANGED <<localStorage, now, uuids, page, invoicesPageVars, inventoryPageVars,
                   edits, lostUpdate, analytics>>

NextStorage ==
    \/ \E key \in Keys : \E entry \in StoredEntries(key) : Tamper(key, entry)
    \/ \E key \in Keys : Load(key)

SpecStorage == Init /\ [][NextStorage]_vars

\* ------------------------------------------------------------------- claims
Range(f) == {f[k] : k \in DOMAIN f}
Running(t) == submitted[t][1]

\* units of item id on the lines
RECURSIVE UnitsSold(_, _)
UnitsSold(lines, id) ==
    IF lines = <<>> THEN 0
    ELSE (IF Head(lines).itemId = id THEN Head(lines).quantity.n ELSE 0)
         + UnitsSold(Tail(lines), id)

\* C1: every persisted inventory item has a quantity that is a number >= 0.
C1_QuantityNonNegative ==
    \A item \in Range(getInventory(localStorage)) :
        item.quantity.kind = "num" /\ item.quantity.n >= 0

\* C2: while createInvoice runs, the invoice has been appended and persisted
\* before any inventory write: the step that starts it adds the invoice to
\* the persisted collection and leaves the persisted inventory as it was, and
\* every write still to do is a reduceInventoryQuantity.
C2_InvoiceFirst ==
    \A t \in Tabs : pc[t] = "createInvoice" =>
        \A k \in DOMAIN pending[t] : pending[t][k].op = "reduceInventoryQuantity"
C2_FirstWrite ==
    \A t \in Tabs : (pc[t] = "idle" /\ pc'[t] = "createInvoice") =>
        /\ localStorage'[INVENTORY_KEY] = localStorage[INVENTORY_KEY]
        /\ Len(getInvoices(localStorage')) = Len(getInvoices(localStorage)) + 1
        /\ getInvoices(localStorage')[Len(getInvoices(localStorage'))].id
              = Running(t)'.id
C2_TwoPhase == []C2_InvoiceFirst /\ [][C2_FirstWrite]_vars
\* the invoice is recorded and the inventory not yet decremented
C2_Witness ==
    \E t \in Tabs :
        /\ pc[t] = "createInvoice"
        /\ pending[t] # <<>>
        /\ Running(t).id \in Ids(getInvoices(localStorage))
        /\ getInventory(localStorage) = Running(t).stock
        /\ Running(t).stock # <<>>

\* a tab that has loaded nothing: it has not acted since the store got content
Untouched(u) ==
    /\ page[u] = "invoices"
    /\ pc[u] = "idle"
    /\ inventory[u] = <<>>
    /\ invoices[u] = <<>>

\* C3: when createInvoice has returned for an accepted submission (and no
\* other tab has been at work), every item that was in stock when the form
\* was submitted has its quantity then minus the units of it on the invoice's
\* lines.
C3_StockMinusSold ==
    \A t \in Tabs :
      (pc[t] = "createInvoice" /\ pending[t] = <<>> /\ \A u \in Tabs \ {t} : Untouched(u)) =>
        \A item \in Range(Running(t).stock) :
            LET arr == getInventory(localStorage)
            IN  /\ FindIndex(arr, item.id) # 0
                /\ arr[FindIndex(arr, item.id)].quantity =
                      Num(item.quantity.n - UnitsSold(Running(t).invoice.items, item.id))

\* the sum of the lines' totals, from the first line on
RECURSIVE LineTotals(_)
LineTotals(lines) ==
    IF lines = <<>> THEN 0 ELSE Head(lines).total.n + LineTotals(Tail(lines))

\* C4: every persisted invoice's total is the sum of its lines' totals, and
\* every line's total is its price times its quantity.
C4_SumInvariant ==
    \A inv \in Range(getInvoices(localStorage)) :
        /\ inv.total = Num(LineTotals(inv.items))
        /\ \A line \in Range(inv.items) :
              line.total = Num(line.price.n * line.quantity.n)
C4_Witness ==
    \E inv \in Range(getInvoices(localStorage)) :
        /\ Len(inv.items) = 2
        /\ inv.total.n > inv.items[1].total.n

\* C5: no step changes an invoice that stays in the persisted collection:
\* whatever is added to, updated in or deleted from the inventory, an invoice
\* keeps every field it was created with.
C5_Step ==
    \A inv \in Range(getInvoices(localStorage)) :
        inv.id \in Ids(getInvoices(localStorage')) =>
            inv \in Range(getInvoices(localStorage'))
C5_SnapshotStable == [][C5_Step]_vars
\* one tab alone sold an item and then renamed and repriced it
C5_Witness ==
    /\ \E u \in Tabs : Untouched(u)
    /\ \E inv \in Range(getInvoices(localStorage)) :
          \E line \in Range(inv.items) :
              LET arr == getInventory(localStorage)
              IN  /\ FindIndex(arr, line.itemId) # 0
                  /\ arr[FindIndex(arr, line.itemId)].price # line.price
                  /\ arr[FindIndex(arr, line.itemId)].name # line.itemName

\* C6: a step that deletes an invoice leaves the persisted inventory as it
\* was: the units the invoice sold are not given back.
C6_Step ==
    (\E t \in Tabs, id \in 1..MaxUuids : InvoicesHandleDelete(t, id)) =>
        localStorage'[INVENTORY_KEY] = localStorage[INVENTORY_KEY]
C6_DeleteKeepsInventory == [][C6_Step]_vars
\* the only invoice is gone and the stock it took is still missing
C6_Witness ==
    /\ edits = 0
    /\ localStorage[INVOICES_KEY] = Json(<<>>)
    /\ \E item \in Range(getInventory(localStorage)) : item.quantity = Num(2)

\* amounts reduceInventoryQuantity is tried with
ReduceAmounts == {Num(1), Num(8), Num(11)}

\* C7: reduceInventoryQuantity(id, amount) sets the quantity of the item with
\* that id to max(0, quantity - amount), changes nothing else, and changes
\* nothing at all when no item has that id.
C7_ReduceClamps ==
    \A id \in 0..MaxUuids, amount \in ReduceAmounts :
        LET arr == getInventory(localStorage)
            after == reduceInventoryQuantity(localStorage, id, amount)
            res == getInventory(after)
        IN  IF id \in Ids(arr)
            THEN /\ Len(res) = Len(arr)
                 /\ after[INVOICES_KEY] = localStorage[INVOICES_KEY]
                 /\ \A k \in DOMAIN arr :
                       IF arr[k].id = id
                       THEN /\ res[k].quantity.kind = "num"
                            /\ res[k].quantity.n =
                                  (IF arr[k].quantity.n - amount.n > 0
                                   THEN arr[k].quantity.n - amount.n ELSE 0)
                            /\ [res[k] EXCEPT !.quantity = arr[k].quantity] = arr[k]
                       ELSE res[k] = arr[k]
            ELSE after = localStorage
\* an invoice has taken more than the stock held: the quantity stopped at 0
C7_Witness ==
    /\ edits = 0
    /\ \E item \in Range(getInventory(localStorage)) : item.quantity = Num(0)
    /\ \E t \in Tabs : pc[t] = "createInvoice"

\* C8: an accepted invoice is checked against, and takes its names and prices
\* from, the inventory as persisted when the form is submitted: every line's
\* item is in it with that name and price and at least that many units.
C8_FreshRead ==
    \A t \in Tabs : pc[t] = "createInvoice" =>
        \A line \in Range(Running(t).invoice.items) :
            LET stock == Running(t).stock
                k == FindIndex(stock, line.itemId)
            IN  /\ k # 0
                /\ stock[k].name = line.itemName
                /\ stock[k].price = line.price
                /\ line.quantity.n <= stock[k].quantity.n

\* C9: nothing coordinates the tabs and the last writer wins: an edit that
\* saveEdit accepts for an item still in the store replaces the persisted
\* name, quantity and price by the values of the tab's edit row, whatever
\* another tab has written since the row was filled.
C9_Step ==
    (edits' = edits + 1) =>
        \A t \in Tabs, typed \in TypedEdits :
            (saveEdit(t, typed) /\ editingId[t] \in Ids(getInventory(localStorage))) =>
                LET values == Spread(editValues[t], typed)
                    arr == getInventory(localStorage')
                    k == FindIndex(arr, editingId[t])
                IN  /\ k # 0
                    /\ arr[k].name = Trim(values.name)
                    /\ arr[k].quantity = JsonNumber(parseInt(values.quantity))
                    /\ arr[k].price = JsonNumber(parseFloat(values.price))
C9_LastWriterWins == [][C9_Step]_vars
\* a saved edit has replaced a quantity that another tab had changed
C9_Witness == lostUpdate

\* C10: add and create refuse invalid input (an empty name, a quantity < 0, a
\* price <= 0; an empty customer name, no line) and leave both collections
\* as they were.
InvalidItem(item) ==
    \/ item.name = <<>>
    \/ item.quantity.n < 0
    \/ item.price.n <= 0
InvalidInvoice(invoice) ==
    \/ invoice.customerName = <<>>
    \/ invoice.items = <<>>
C10_Step ==
    /\ \A item \in RawItems :
          (InvalidItem(item) /\ RepoAdd(item)) => localStorage' = localStorage
    /\ \A invoice \in RawInvoices :
          (InvalidInvoice(invoice) /\ RepoCreate(invoice)) => localStorage' = localStorage
C10_InvalidRejected == [][C10_Step]_vars

\* C11: adding a valid item (non-empty name, quantity >= 0, price > 0) gives
\* the previous collection plus one item, appended last, with those fields
\* and a non-empty id that no other item has; the items already there are
\* unchanged.
C11_Step ==
    \A item \in RawItems :
        (~InvalidItem(item) /\ RepoAdd(item)) =>
            LET before == getInventory(localStorage)
                after == getInventory(localStorage')
                new == after[Len(after)]
            IN  /\ Len(after) = Len(before) + 1
                /\ SubSeq(after, 1, Len(before)) = before
                /\ new.name = item.name
                /\ new.quantity = item.quantity
                /\ new.price = item.price
                /\ new.id # 0
                /\ new.id \notin Ids(before)
C11_AddThenList == [][C11_Step]_vars
\* a second valid item stands last, after the first
C11_Witness ==
    LET arr == getInventory(localStorage)
    IN  /\ Len(arr) = 2
        /\ arr[2].id = uuids
        /\ arr[1].id # arr[2].id
        /\ arr[2].createdAt > arr[1].createdAt
        /\ ~InvalidItem(arr[1]) /\ ~InvalidItem(arr[2])

\* C12: an item's id and createdAt never change: after every step each item
\* in the collection either was just added or was there before with the same
\* id and createdAt, and no two items have the same id.
C12_Step ==
    LET before == getInventory(localStorage)
        after == getInventory(localStorage')
    IN  /\ \A k \in DOMAIN after :
              \/ after[k].id > uuids
              \/ \E j \in DOMAIN before :
                    before[j].id = after[k].id /\ before[j].createdAt = after[k].createdAt
        /\ \A j, k \in DOMAIN after : after[j].id = after[k].id => j = k
C12_IdAndCreatedAtImmutable == [][C12_Step]_vars

\* C13: update and delete with an id that no item (no invoice) has leave the
\* contents of both collections as they were, and deleting an id twice gives
\* what deleting it once gives.
C13_Step ==
    /\ \A id \in 1..MaxUuids, updates \in RawItems :
          (id \notin Ids(getInventory(localStorage)) /\ RepoUpdate(id, updates)) =>
              /\ getInventory(localStorage') = getInventory(localStorage)
              /\ getInvoices(localStorage') = getInvoices(localStorage)
    /\ \A id \in 1..MaxUuids :
          (id \notin Ids(getInventory(localStorage)) /\ RepoDelete(id)) =>
              /\ getInventory(localStorage') = getInventory(localStorage)
              /\ getInvoices(localStorage') = getInvoices(localStorage)
    /\ \A id \in 1..MaxUuids :
          (id \notin Ids(getInvoices(localStorage)) /\ RepoDeleteInvoice(id)) =>
              /\ getInventory(localStorage') = getInventory(localStorage)
              /\ getInvoices(localStorage') = getInvoices(localStorage)
C13_DeleteIdempotent ==
    \A id \in 1..MaxUuids :
        /\ deleteInventoryItem(deleteInventoryItem(localStorage, id), id)
              = deleteInventoryItem(localStorage, id)
        /\ deleteInvoice(deleteInvoice(localStorage, id), id)
              = deleteInvoice(localStorage, id)
C13_AbsentIdNoOp == []C13_DeleteIdempotent /\ [][C13_Step]_vars
\* an item was deleted, another is still stored, and a deleteInvoice has run
\* though no invoice is stored
C13_Witness ==
    /\ \E id \in 1..uuids : id \notin Ids(getInventory(localStorage))
    /\ getInventory(localStorage) # <<>>
    /\ localStorage[INVOICES_KEY] = Json(<<>>)

\* C19: an update of an id that is in the collection changes, in the first
\* item with that id, the fields the updates name and nothing else: the
\* item's other fields, the other items, the order and the invoice collection
\* stay as they were.
C19_PartialUpdate ==
    \A id \in 1..MaxUuids, updates \in RawUpdates :
        id \in Ids(getInventory(localStorage)) =>
            LET before == getInventory(localStorage)
                stored == updateInventoryItem(localStorage, id, updates)
                after == getInventory(stored)
            IN  /\ Len(after) = Len(before)
                /\ stored[INVOICES_KEY] = localStorage[INVOICES_KEY]
                /\ \A k \in DOMAIN before :
                      IF k = FindIndex(before, id)
                      THEN /\ DOMAIN after[k] = DOMAIN before[k]
                           /\ \A field \in DOMAIN before[k] :
                                 after[k][field] =
                                    IF field \in DOMAIN updates THEN updates[field]
                                    ELSE before[k][field]
                      ELSE after[k] = before[k]
\* of two items one was renamed and kept its price; an invoice is stored
C19_Witness ==
    LET arr == getInventory(localStorage)
    IN  /\ \E k \in DOMAIN arr :
              /\ arr[k].name = <<"G">>
              /\ arr[k].price = Num(50)
              /\ arr[k].quantity # Num(2)
        /\ getInvoices(localStorage) # <<>>

\* index of the first line that sells item id
FirstSeen(lines, id) ==
    CHOOSE k \in DOMAIN lines :
        lines[k].itemId = id /\ \A j \in 1..(k - 1) : lines[j].itemId # id

\* C14: getTopSellingProduct gives null when no invoice is stored; otherwise
\* it gives the name (as on the first line that sold it) and the summed
\* quantity of an item whose sum over all lines of all invoices is the
\* greatest, and among items of equal greatest sum the one sold first in
\* invoice and line order.
C14_TopSellingProduct ==
    LET lines == AllLines(getInvoices(localStorage))
        ids == {lines[k].itemId : k \in DOMAIN lines}
        top == getTopSellingProduct(localStorage)
    IN  IF getInvoices(localStorage) = <<>> THEN top = NoProduct
        ELSE \E id \in ids :
                /\ \A other \in ids : UnitsSold(lines, other) <= UnitsSold(lines, id)
                /\ \A other \in ids \ {id} :
                      UnitsSold(lines, other) = UnitsSold(lines, id) =>
                          FirstSeen(lines, id) < FirstSeen(lines, other)
                /\ top = [kind |-> "product",
                          name |-> lines[FirstSeen(lines, id)].itemName,
                          quantity |-> Num(UnitsSold(lines, id))]
\* the page shows G as top product: G and W sold the same number of units in
\* separate invoices, G first
C14_Witness ==
    LET lines == AllLines(getInvoices(localStorage))
    IN  /\ analytics.topProduct.kind = "product"
        /\ analytics.topProduct.name = <<"G">>
        /\ Len(getInvoices(localStorage)) = 2
        /\ UnitsSold(lines, 1) = UnitsSold(lines, 2)
        /\ UnitsSold(lines, 1) > 0

\* the templates of the strings, in order
Rules(insights) == [k \in DOMAIN insights |-> insights[k].rule]

\* C15: generateInsights gives, in this order, at most one sales trend
\* string (up if thisWeek > lastWeek > 0, else decreased if thisWeek <
\* lastWeek and lastWeek > 0, else steady if thisWeek > 0), a low stock
\* string iff some item has quantity < 5, a best seller string iff there is
\* a top product with quantity > 3, a sales today string iff todaySales > 0,
\* and the welcome string iff none of these; it is never empty, and with no
\* item and no invoice it is the welcome string alone.
C15_InsightRules ==
    LET thisWeek == getThisWeekSales(localStorage, now).n
        lastWeek == getLastWeekSales(localStorage, now).n
        top == getTopSellingProduct(localStorage)
        trend == IF thisWeek > lastWeek /\ lastWeek > 0 THEN <<"Sales are up">>
                 ELSE IF thisWeek < lastWeek /\ lastWeek > 0 THEN <<"Sales have decreased">>
                 ELSE IF thisWeek > 0 THEN <<"steady sales">>
                 ELSE <<>>
        low == IF \E item \in Range(getInventory(localStorage)) : item.quantity.n < 5
               THEN <<"Low stock alert">> ELSE <<>>
        best == IF top # NoProduct /\ top.quantity.n > 3 THEN <<"best seller">> ELSE <<>>
        today == IF getTodaySales(localStorage, now).n > 0 THEN <<"sales today">> ELSE <<>>
        fired == trend \o low \o best \o today
        insights == generateInsights(localStorage, now)
    IN  /\ Rules(insights) = (IF fired = <<>> THEN <<"Welcome">> ELSE fired)
        /\ insights # <<>>
        /\ (getInventory(localStorage) = <<>> /\ getInvoices(localStorage) = <<>>) =>
              insights = <<Welcome>>
\* the page shows all four strings: sales up, low stock, best seller, today
C15_Witness ==
    Rules(analytics.insights)
        = <<"Sales are up", "Low stock alert", "best seller", "sales today">>

\* the sum of the totals of the invoices created in [from, to)
RECURSIVE SalesBetween(_, _, _)
SalesBetween(invs, from, to) ==
    IF invs = <<>> THEN 0
    ELSE (IF Head(invs).createdAt >= from /\ Head(invs).createdAt < to
          THEN Head(invs).total.n ELSE 0)
         + SalesBetween(Tail(invs), from, to)

\* C16: getThisWeekSales sums the invoices created in [now - 7d, now) and
\* getLastWeekSales those created in [now - 14d, now - 7d); an invoice not
\* created before now is in neither sum.
C16_WeekWindows ==
    /\ getThisWeekSales(localStorage, now)
          = Num(SalesBetween(getInvoices(localStorage), now - WeekMs, now))
    /\ getLastWeekSales(localStorage, now)
          = Num(SalesBetween(getInvoices(localStorage), now - 2 * WeekMs, now - WeekMs))

\* C17: the analytics functions only read: a run of loadAnalytics, which
\* calls them, leaves both persisted collections as they were; and
\* getLowStockItems gives the inventory items with quantity < 5, and no
\* others, in the order of the inventory.
C17_LowStockExact ==
    LET arr == getInventory(localStorage)
        low == getLowStockItems(localStorage)
    IN  /\ \A item \in Range(arr) : item \in Range(low) <=> item.quantity.n < 5
        /\ Len(low) = Cardinality({k \in DOMAIN arr : arr[k].quantity.n < 5})
        /\ \A j, k \in DOMAIN low :
              j < k => FindIndex(arr, low[j].id) < FindIndex(arr, low[k].id)
C17_Step == loadAnalytics => localStorage' = localStorage
C17_PureReads == []C17_LowStockExact /\ [][C17_Step]_vars
\* the page counts one low item of two: a sale took one from 5 to 4
C17_Witness ==
    /\ analytics.lowStockCount = 1
    /\ analytics.invoiceCount = 1
    /\ \E item \in Range(getInventory(localStorage)) : item.quantity = Num(4)
    /\ \E item \in Range(getInventory(localStorage)) : item.quantity = Num(5)

\* C18: loading a key that is absent gives the empty collection; loading a
\* key whose content is corrupted fails with an error and never gives an
\* empty or made-up collection.
C18_CorruptDataFails ==
    loaded.outcome # "none" =>
        /\ localStorage[loaded.key] = Absent =>
              (loaded.outcome = "array" /\ loaded.value = <<>>)
        /\ localStorage[loaded.key] \in Corrupted => loaded.outcome = "SyntaxError"
====
